---- MODULE Spec2Model ----
(***************************************************************************)
(* College Management API (src/main.py, src/schemas.py).                   *)
(*                                                                         *)
(* The store holds four collections (adminuser, admission, student,        *)
(* attendance).  Every pymongo call is one store step; a request handler   *)
(* that makes several calls (accept_admission, mark_attendance) is a       *)
(* sequence of steps, and the steps of different requests interleave.      *)
(***************************************************************************)
EXTENDS Integers, Sequences, FiniteSets, TLC

----------------------------------------------------------------------------
(* Bounds of the model *)

NumWorkers == 2
MaxDocs == 3
MaxTime == 1
MaxDays == 1

Workers == 1..NumWorkers
Times == 0..MaxTime
Days == 1..MaxDays

----------------------------------------------------------------------------
(* Values *)

\* Python's None, and a field a request body does not carry
None == "None"

\* Literal["pending", "accepted", "rejected"]
AdmissionStatus == {"pending", "accepted", "rejected"}

\* Literal["present", "absent", "late"]
AttendanceStatus == {"present", "absent", "late"}

\* Strings a client can send as an identifier: 24 hex digits (the text of the
\* ObjectId val) or anything else
IdStrings ==
  [hex : {TRUE}, val : 1..MaxDocs] \cup {[hex |-> FALSE, val |-> 0]}

\* bson ObjectId(s): raises (Invalid) unless s is 24 hex digits
Invalid == 0
ObjectId(s) == IF s.hex THEN s.val ELSE Invalid

\* str(oid)
Str(oid) == [hex |-> TRUE, val |-> oid]

\* datetime.combine(req.date, datetime.min.time()): midnight of the day
SecondsPerDay == 86400
combine(day) == day * SecondsPerDay + 0

\* d.date().isoformat(): the calendar day of a datetime, as text
isoformat(dt) == [iso |-> dt \div SecondsPerDay]

\* dict.get(k, default)
Get(doc, k, default) == IF k \in DOMAIN doc THEN doc[k] ELSE default

----------------------------------------------------------------------------
(* Request bodies *)

DefaultAdmin ==
  [name |-> "Default Admin", email |-> "admin@college.edu",
   password |-> "admin123", role |-> "admin", is_active |-> TRUE]

\* adminuser collections the store may hold when the process starts
StoredUsers ==
  { << >>,
    << [_id |-> 101, name |-> "Ann", email |-> "ann@college.edu",
        password |-> "secret1", role |-> "staff", is_active |-> FALSE],
       [_id |-> 102, name |-> "Bob", email |-> "bob@college.edu",
        password |-> "secret2", is_active |-> TRUE] >> }

DefaultAdminId == 100

Credentials(email, password) == [email |-> email, password |-> password]

\* Bodies of POST /api/auth/login
LoginRequest ==
  { Credentials("admin@college.edu", "admin123"),
    Credentials("ann@college.edu", "secret1"),
    Credentials("bob@college.edu", "secret2"),
    Credentials("bob@college.edu", "secret1"),
    Credentials("eve@college.edu", "secret2") }

\* Bodies of POST /api/admissions; email_ok = FALSE is a malformed EmailStr
AdmissionBodies ==
  [full_name : {"Jane Doe"}, email : {"jane@x.org"}, email_ok : {TRUE},
   program : {"Engineering"}, phone : {"555"},
   status : {None, "pending", "rejected", "bogus"}]
  \cup
  [full_name : {"John Roe"}, email : {"john-at-x"}, email_ok : {FALSE},
   program : {"Psychology"}, phone : {"556"}, status : {None}]

\* pydantic validation of the Admission model: EmailStr, Literal status
AdmissionValid(b) == b.email_ok /\ b.status \in {None} \cup AdmissionStatus

\* the validated Admission model: status defaults to "pending"
Admission(b) ==
  [full_name |-> b.full_name, email |-> b.email, program |-> b.program,
   phone |-> b.phone,
   status |-> IF b.status = None THEN "pending" ELSE b.status]

\* Bodies of POST /api/attendance
AttendanceBodies ==
  { [student_id |-> id, date |-> day, status |-> sn[1], note |-> sn[2]] :
      id \in IdStrings, day \in Days,
      sn \in { <<None, None>>, <<"sick", "n">> } }

\* the validated AttendanceRequest model: status: str = "present"
AttendanceRequest(b) ==
  [student_id |-> b.student_id, date |-> b.date,
   status |-> IF b.status = None THEN "present" ELSE b.status,
   note |-> b.note]

----------------------------------------------------------------------------
(* State *)

VARIABLES
  db,          \* TRUE iff the store handle is configured (db is not None)
  adminuser,   \* collection: sequence of documents, in store order
  admission,   \* collection: _id -> document
  student,     \* collection: _id -> document
  attendance,  \* collection: sequence of documents, in store order
  origin,      \* history: student _id -> _id of the admission it was made from
  nextId,      \* the next ObjectId the store generates
  now,         \* datetime.utcnow()
  pc,          \* per worker: where its current request stands
  loc,         \* per worker: the local variables of its current request
  last         \* the last response sent

vars ==
  << db, adminuser, admission, student, attendance, origin, nextId, now, pc,
     loc, last >>

store == << adminuser, admission, student, attendance, origin, nextId >>

NoLoc == [oid |-> Invalid]

\* raise HTTPException(status_code, detail)
HTTPException(detail) == [detail |-> detail]

Response(op, arg, code, body) ==
  [op |-> op, arg |-> arg, code |-> code, body |-> body]

\* collection.insert_one(doc) on a collection keyed by _id
insert_one(coll, id, doc) ==
  [i \in DOMAIN coll \cup {id} |-> IF i = id THEN doc ELSE coll[i]]

\* serialize_doc: _id becomes id (as text), the other fields are kept
serialize_doc(id, doc) ==
  [k \in DOMAIN doc \cup {"id"} |-> IF k = "id" THEN Str(id) ELSE doc[k]]

----------------------------------------------------------------------------
(* Startup *)

ensure_default_admin(dbOK, users) ==
  IF ~dbOK THEN users
  ELSE IF users = << >>
       THEN << [_id |-> DefaultAdminId] @@ DefaultAdmin >>
       ELSE users

Init ==
  /\ db \in BOOLEAN
  /\ \E users \in StoredUsers :
       adminuser = ensure_default_admin(db, IF db THEN users ELSE << >>)
  /\ admission = << >>
  /\ student = << >>
  /\ attendance = << >>
  /\ origin = << >>
  /\ nextId = 1
  /\ now = 0
  /\ pc = [w \in Workers |-> "idle"]
  /\ loc = [w \in Workers |-> NoLoc]
  /\ last = Response("none", [none |-> TRUE], 0, [none |-> TRUE])

\* The clock advances
Tick ==
  /\ now < MaxTime
  /\ now' = now + 1
  /\ UNCHANGED << db, store, pc, loc, last >>

----------------------------------------------------------------------------
(* Store operations *)

\* collection.find_one(filter) on a sequence: the position of the first
\* document the filter matches, 0 when there is none
FirstMatch(coll, Matches(_)) ==
  IF \E i \in DOMAIN coll : Matches(coll[i])
  THEN CHOOSE i \in DOMAIN coll :
         /\ Matches(coll[i])
         /\ \A j \in DOMAIN coll : Matches(coll[j]) => i <= j
  ELSE 0

\* update_one without the match: every call inserts (a plain insert_one)
update_one_always_inserts(coll, key, set, onInsert) ==
  Append(coll, set @@ onInsert @@ key)

\* update_one with created_at among the fields of $set
update_one_resets_created_at(coll, key, set, onInsert) ==
  LET Matches(doc) == \A k \in DOMAIN key : k \in DOMAIN doc /\ doc[k] = key[k]
      i == FirstMatch(coll, Matches)
  IN  IF i # 0
      THEN [coll EXCEPT ![i] = set @@ onInsert @@ coll[i]]
      ELSE Append(coll, set @@ onInsert @@ key)

\* collection.update_one(key, {"$set": set, "$setOnInsert": onInsert},
\* upsert=True): the first document matching key gets the fields of set; when
\* none matches, one document made of key, set and onInsert is inserted.
\* The call is one store command: its match and its write are one step.
update_one_upsert(coll, key, set, onInsert) ==
  LET Matches(doc) == \A k \in DOMAIN key : k \in DOMAIN doc /\ doc[k] = key[k]
      i == FirstMatch(coll, Matches)
  IN  IF i # 0
      THEN [coll EXCEPT ![i] = set @@ coll[i]]
      ELSE Append(coll, set @@ onInsert @@ key)

\* database.create_document(collection, data): stamps the document and
\* inserts it under a generated identifier
create_document(coll, id, data) ==
  insert_one(coll, id, data @@ [created_at |-> now, updated_at |-> now])

\* database.get_documents(collection, filter): the documents equal to the
\* filter on each of its fields
get_documents(coll, filt) ==
  { i \in DOMAIN coll : \A k \in DOMAIN filt : coll[i][k] = filt[k] }

\* GET /api/admissions?status=...
list_admissions(status) ==
  LET filt == IF status # None THEN [status |-> status] ELSE << >>
  IN  { serialize_doc(i, admission[i]) : i \in get_documents(admission, filt) }

----------------------------------------------------------------------------
(* POST /api/auth/login *)

\* the filter without "is_active": True
LoginFilter_any_user(req, u) ==
  /\ u.email = req.email
  /\ u.password = req.password

\* the filter {"email": req.email, "password": req.password, "is_active": True}
LoginFilter(req, u) ==
  /\ u.email = req.email
  /\ u.password = req.password
  /\ u.is_active = TRUE

login(w, req) ==
  /\ pc[w] = "idle"
  /\ IF ~db
     THEN last' = Response("login", req, 503,
                           HTTPException("Database not configured"))
     ELSE LET Matches(u) == LoginFilter(req, u)
              i == FirstMatch(adminuser, Matches)
          IN  IF i = 0
              THEN last' = Response("login", req, 401,
                                    HTTPException("Invalid credentials"))
              ELSE LET user_s == serialize_doc(adminuser[i]._id, adminuser[i])
                   IN  last' = Response("login", req, 200,
                                 [message |-> "Login successful",
                                  user |-> [id |-> user_s.id,
                                            name |-> Get(user_s, "name", None),
                                            email |-> Get(user_s, "email", None),
                                            role |-> Get(user_s, "role", "admin")]])
  /\ UNCHANGED << db, store, now, pc, loc >>

----------------------------------------------------------------------------
(* POST /api/admissions *)

submit_admission(w, body) ==
  /\ pc[w] = "idle"
  /\ IF ~AdmissionValid(body)
     THEN /\ last' = Response("submit", [full_name |-> body.full_name], 422,
                              HTTPException("validation error"))
          /\ UNCHANGED << admission, nextId >>
     ELSE IF ~db
     THEN /\ last' = Response("submit", [full_name |-> body.full_name], 503,
                              HTTPException("Database not available"))
          /\ UNCHANGED << admission, nextId >>
     ELSE /\ nextId + Cardinality({v \in Workers : pc[v] = "accept_insert"})
               <= MaxDocs
          /\ admission' = create_document(admission, nextId, Admission(body))
          /\ nextId' = nextId + 1
          /\ last' = Response("submit", [full_name |-> body.full_name], 200,
                 [message |-> "Application submitted", id |-> Str(nextId)])
  /\ UNCHANGED << db, adminuser, student, attendance, origin, now, pc, loc >>

----------------------------------------------------------------------------
(* POST /api/admissions/{admission_id}/accept *)

\* student_data with program taken from the wrong field
student_data_wrong_field(adm) ==
  [full_name |-> adm.full_name, email |-> adm.email, program |-> adm.full_name,
   roll_no |-> None, year |-> 1, is_active |-> TRUE, created_at |-> now,
   updated_at |-> now]

\* the student document built from the admission found
student_data(adm) ==
  [full_name |-> adm.full_name, email |-> adm.email, program |-> adm.program,
   roll_no |-> None, year |-> 1, is_active |-> TRUE, created_at |-> now,
   updated_at |-> now]

\* ObjectId(admission_id), then db["admission"].find_one({"_id": oid}) and
\* the construction of student_data
accept_find(w, admission_id) ==
  /\ pc[w] = "idle"
  /\ IF ~db
     THEN /\ last' = Response("accept", [id |-> admission_id], 503,
                              HTTPException("Database not configured"))
          /\ UNCHANGED << pc, loc >>
     ELSE IF ObjectId(admission_id) = Invalid
     THEN /\ last' = Response("accept", [id |-> admission_id], 400,
                              HTTPException("Invalid admission id"))
          /\ UNCHANGED << pc, loc >>
     ELSE IF ObjectId(admission_id) \notin DOMAIN admission
     THEN /\ last' = Response("accept", [id |-> admission_id], 404,
                              HTTPException("Admission not found"))
          /\ UNCHANGED << pc, loc >>
     ELSE LET oid == ObjectId(admission_id)
          IN  /\ nextId + Cardinality({v \in Workers : pc[v] = "accept_insert"})
                   <= MaxDocs
              /\ loc' = [loc EXCEPT ![w] =
                   [oid |-> oid,
                    student_data |-> student_data(admission[oid])]]
              /\ pc' = [pc EXCEPT ![w] = "accept_insert"]
              /\ UNCHANGED last
  /\ UNCHANGED << db, store, now >>

\* the two store calls in the other order: the admission is updated where
\* the student should be inserted
accept_update_first(w) ==
  /\ pc[w] = "accept_insert"
  /\ admission' =
       [i \in DOMAIN admission |->
          IF i = loc[w].oid
          THEN [status |-> "accepted", updated_at |-> now] @@ admission[i]
          ELSE admission[i]]
  /\ loc' = [loc EXCEPT ![w] = [oid |-> loc[w].oid, inserted_id |-> nextId]]
  /\ pc' = [pc EXCEPT ![w] = "accept_update"]
  /\ UNCHANGED << db, adminuser, student, attendance, origin, nextId, now,
                  last >>

\* res = db["student"].insert_one(student_data)
accept_insert(w) ==
  /\ pc[w] = "accept_insert"
  /\ student' = insert_one(student, nextId, loc[w].student_data)
  /\ origin' = insert_one(origin, nextId, loc[w].oid)
  /\ nextId' = nextId + 1
  /\ loc' = [loc EXCEPT ![w] = [oid |-> loc[w].oid, inserted_id |-> nextId]]
  /\ pc' = [pc EXCEPT ![w] = "accept_update"]
  /\ UNCHANGED << db, adminuser, admission, attendance, now, last >>

\* db["admission"].update_one({"_id": oid}, {"$set": {...}}) and the response
accept_update(w) ==
  /\ pc[w] = "accept_update"
  /\ admission' =
       [i \in DOMAIN admission |->
          IF i = loc[w].oid
          THEN [status |-> "accepted", updated_at |-> now] @@ admission[i]
          ELSE admission[i]]
  /\ last' = Response("accept", [id |-> Str(loc[w].oid)], 200,
                      [message |-> "Admission accepted",
                       student_id |-> Str(loc[w].inserted_id)])
  /\ pc' = [pc EXCEPT ![w] = "idle"]
  /\ loc' = [loc EXCEPT ![w] = NoLoc]
  /\ UNCHANGED << db, adminuser, student, attendance, origin, nextId, now >>

\* the store call of update_one raises, or the process stops, after the
\* student was inserted: the request ends without the update
accept_fail(w) ==
  /\ pc[w] = "accept_update"
  /\ last' = Response("accept", [id |-> Str(loc[w].oid)], 500,
                      HTTPException("Internal Server Error"))
  /\ pc' = [pc EXCEPT ![w] = "idle"]
  /\ loc' = [loc EXCEPT ![w] = NoLoc]
  /\ UNCHANGED << db, store, now >>

----------------------------------------------------------------------------
(* POST /api/attendance *)

\* mark_attendance without the lookup of the student
mark_find_no_lookup(w, body) ==
  LET req == AttendanceRequest(body) IN
  /\ pc[w] = "idle"
  /\ IF ~db
     THEN /\ last' = Response("attendance", [id |-> req.student_id], 503,
                              HTTPException("Database not configured"))
          /\ UNCHANGED << pc, loc >>
     ELSE IF ObjectId(req.student_id) = Invalid
     THEN /\ last' = Response("attendance", [id |-> req.student_id], 400,
                              HTTPException("Invalid student id"))
          /\ UNCHANGED << pc, loc >>
     ELSE /\ loc' = [loc EXCEPT ![w] =
                       [oid |-> ObjectId(req.student_id), req |-> req]]
          /\ pc' = [pc EXCEPT ![w] = "mark_upsert"]
          /\ UNCHANGED last
  /\ UNCHANGED << db, store, now >>

\* ObjectId(req.student_id), then db["student"].find_one({"_id": sid})
mark_find(w, body) ==
  LET req == AttendanceRequest(body) IN
  /\ pc[w] = "idle"
  /\ IF ~db
     THEN /\ last' = Response("attendance", [id |-> req.student_id], 503,
                              HTTPException("Database not configured"))
          /\ UNCHANGED << pc, loc >>
     ELSE IF ObjectId(req.student_id) = Invalid
     THEN /\ last' = Response("attendance", [id |-> req.student_id], 400,
                              HTTPException("Invalid student id"))
          /\ UNCHANGED << pc, loc >>
     ELSE IF ObjectId(req.student_id) \notin DOMAIN student
     THEN /\ last' = Response("attendance", [id |-> req.student_id], 404,
                              HTTPException("Student not found"))
          /\ UNCHANGED << pc, loc >>
     ELSE /\ loc' = [loc EXCEPT ![w] =
                       [oid |-> ObjectId(req.student_id), req |-> req]]
          /\ pc' = [pc EXCEPT ![w] = "mark_upsert"]
          /\ UNCHANGED last
  /\ UNCHANGED << db, store, now >>

\* the key of the upsert: {"student_id": str(sid), "date": d.date().isoformat()}
AttendanceKey(sid, day) ==
  [student_id |-> Str(sid), date |-> isoformat(combine(day))]

\* db["attendance"].update_one(..., upsert=True) and the response
mark_upsert(w) ==
  LET sid == loc[w].oid
      req == loc[w].req
      key == AttendanceKey(sid, req.date)
  IN
  /\ pc[w] = "mark_upsert"
  /\ attendance' =
       update_one_upsert(attendance, key,
         [student_id |-> key.student_id, date |-> key.date,
          status |-> req.status, note |-> req.note, updated_at |-> now],
         [created_at |-> now])
  /\ last' = Response("attendance", [id |-> req.student_id], 200,
                      [message |-> "Attendance recorded"])
  /\ pc' = [pc EXCEPT ![w] = "idle"]
  /\ loc' = [loc EXCEPT ![w] = NoLoc]
  /\ UNCHANGED << db, adminuser, admission, student, origin, nextId, now >>

----------------------------------------------------------------------------
(* Specification *)

Next ==
  \/ Tick
  \/ \E w \in Workers, req \in LoginRequest : login(w, req)
  \/ \E w \in Workers, body \in AdmissionBodies : submit_admission(w, body)
  \/ \E w \in Workers, id \in IdStrings : accept_find(w, id)
  \/ \E w \in Workers : accept_insert(w)
  \/ \E w \in Workers : accept_update(w)
  \/ \E w \in Workers : accept_fail(w)
  \/ \E w \in Workers, body \in AttendanceBodies : mark_find(w, body)
  \/ \E w \in Workers : mark_upsert(w)

Spec == Init /\ [][Next]_vars

TypeOK ==
  /\ db \in BOOLEAN
  /\ nextId \in 1..(MaxDocs + 1)
  /\ now \in Times
  /\ DOMAIN origin = DOMAIN student
  /\ \A w \in Workers :
       pc[w] \in {"idle", "accept_insert", "accept_update", "mark_upsert"}

----------------------------------------------------------------------------
(* Properties *)

\* a response was sent in this step (a step that repeats the last response
\* and changes nothing else is a stuttering step)
Responded(op) == last' # last /\ last'.op = op

\* the attendance documents of a (student_id, date) pair
AttendanceOf(coll, key) ==
  { i \in DOMAIN coll :
      coll[i].student_id = key.student_id /\ coll[i].date = key.date }

\* the students made from an admission
StudentsFrom(a) == { s \in DOMAIN student : origin[s] = a }

\* C1: in every reachable state, whatever the interleaving of record calls,
\* the attendance collection holds at most one document for each
\* (student_id, date) pair.
C1_UniqueAttendance ==
  \A i, j \in DOMAIN attendance :
    (/\ attendance[i].student_id = attendance[j].student_id
     /\ attendance[i].date = attendance[j].date) => i = j

\* two requests for the same pair are both past the student lookup while the
\* pair's document was already written twice
C1_Witness ==
  \E w, v \in Workers :
    /\ w # v
    /\ pc[w] = "mark_upsert" /\ pc[v] = "mark_upsert"
    /\ loc[w].oid = loc[v].oid /\ loc[w].req.date = loc[v].req.date
    /\ \E i \in AttendanceOf(attendance,
                             AttendanceKey(loc[w].oid, loc[w].req.date)) :
         attendance[i].created_at < attendance[i].updated_at

\* C2: the first successful record(s, d, ...) inserts the document with
\* created_at = updated_at = the time of the call; every later one leaves
\* created_at as it was, sets status and note to those of the call and
\* updated_at to the time of the call, and changes no other document.
C2_UpsertKeepsCreatedAt ==
  [][\A w \in Workers :
       (pc[w] = "mark_upsert" /\ pc'[w] = "idle") =>
         LET req == loc[w].req
             key == AttendanceKey(loc[w].oid, req.date)
             old == AttendanceOf(attendance, key)
         IN  IF old = {}
             THEN /\ Len(attendance') = Len(attendance) + 1
                  /\ \A i \in DOMAIN attendance : attendance'[i] = attendance[i]
                  /\ attendance'[Len(attendance')] =
                       [student_id |-> key.student_id, date |-> key.date,
                        status |-> req.status, note |-> req.note,
                        created_at |-> now, updated_at |-> now]
             ELSE /\ Len(attendance') = Len(attendance)
                  /\ \A i \in DOMAIN attendance :
                       attendance'[i] =
                         IF i \in old
                         THEN [attendance[i] EXCEPT !.status = req.status,
                                                    !.note = req.note,
                                                    !.updated_at = now]
                         ELSE attendance[i]
    ]_vars

\* a document was written a second time, later than it was created, and now
\* carries the status of the second write
C2_Witness ==
  /\ last.op = "attendance" /\ last.code = 200
  /\ \E i \in DOMAIN attendance :
       /\ attendance[i].student_id = last.arg.id
       /\ attendance[i].created_at < attendance[i].updated_at
       /\ attendance[i].status = "sick"

\* C3 (as claimed): at most one student is ever made from an admission, and
\* exactly one once an accept on it has completed.
C3_ExactlyOnce ==
  /\ \A a \in DOMAIN admission : Cardinality(StudentsFrom(a)) <= 1
  /\ (last.op = "accept" /\ last.code = 200) =>
       Cardinality(StudentsFrom(ObjectId(last.arg.id))) = 1

\* C4: the steps of an accept on an existing admission a: the lookup changes
\* nothing; the insert adds exactly one student with a's full_name, email and
\* program, roll_no unset, year 1, is_active true, and changes nothing else;
\* the update sets a's status to "accepted" and its updated_at to the time
\* of the call, changes no other field and no other document, and the
\* response carries the id of the inserted student.
C4_AcceptEffect ==
  [][\A w \in Workers :
       /\ (pc[w] = "idle" /\ pc'[w] = "accept_insert") =>
            /\ loc'[w].oid \in DOMAIN admission
            /\ UNCHANGED store
       /\ (pc[w] = "accept_insert" /\ pc'[w] = "accept_update") =>
            LET a == admission[loc[w].oid]
                sid == loc'[w].inserted_id
            IN  /\ sid \notin DOMAIN student
                /\ DOMAIN student' = DOMAIN student \cup {sid}
                /\ \A s \in DOMAIN student : student'[s] = student[s]
                /\ student'[sid].full_name = a.full_name
                /\ student'[sid].email = a.email
                /\ student'[sid].program = a.program
                /\ student'[sid].roll_no = None
                /\ student'[sid].year = 1
                /\ student'[sid].is_active = TRUE
                /\ UNCHANGED << adminuser, admission, attendance >>
       /\ (pc[w] = "accept_update" /\ pc'[w] = "idle" /\ last'.code = 200) =>
            /\ admission' =
                 [admission EXCEPT ![loc[w].oid] =
                    [@ EXCEPT !.status = "accepted", !.updated_at = now]]
            /\ UNCHANGED << adminuser, student, attendance >>
            /\ loc[w].inserted_id \in StudentsFrom(loc[w].oid)
            /\ last'.op = "accept"
            /\ last'.arg.id = Str(loc[w].oid)
            /\ last'.body.student_id = Str(loc[w].inserted_id)
    ]_vars

\* an accept has answered: the student it names exists, and its admission is
\* accepted with a refreshed updated_at
C4_Witness ==
  /\ last.op = "accept" /\ last.code = 200
  /\ ObjectId(last.body.student_id) \in DOMAIN student
  /\ student[ObjectId(last.body.student_id)].full_name = "Jane Doe"
  /\ admission[ObjectId(last.arg.id)].status = "accepted"
  /\ admission[ObjectId(last.arg.id)].created_at
       < admission[ObjectId(last.arg.id)].updated_at

\* C5 (as claimed): a submit adds exactly one admission, its status is
\* "pending" whatever the body carried, nothing else changes, and the new
\* document is in list(status = "pending") right after.
C5_SubmitPending ==
  [][Responded("submit") /\ last'.code = 200 =>
       /\ DOMAIN admission' = DOMAIN admission \cup {ObjectId(last'.body.id)}
       /\ ObjectId(last'.body.id) \notin DOMAIN admission
       /\ \A i \in DOMAIN admission : admission'[i] = admission[i]
       /\ UNCHANGED << adminuser, student, attendance >>
       /\ admission'[ObjectId(last'.body.id)].status = "pending"
       /\ \E d \in list_admissions("pending")' : d.id = last'.body.id
    ]_vars

\* C6 (as claimed): no admission is deleted, and an admission's status
\* changes only from "pending" to "accepted" or "rejected".
C6_StatusOnce ==
  [][\A i \in DOMAIN admission :
       /\ i \in DOMAIN admission'
       /\ admission'[i].status # admission[i].status =>
            /\ admission[i].status = "pending"
            /\ admission'[i].status \in {"accepted", "rejected"}
    ]_vars

\* C7: with the store configured, accept answers 400 exactly when its id is
\* not a valid ObjectId and 404 exactly when it is valid and no admission has
\* it; record does the same with respect to students; a call that answers
\* 400 or 404 changes no collection and no request in progress.
C7_FailingCalls ==
  [][\A op \in {"accept", "attendance"} :
       (Responded(op) /\ db) =>
         LET oid == ObjectId(last'.arg.id)
             coll == IF op = "accept" THEN admission ELSE student
         IN  /\ last'.code = 400 <=> oid = Invalid
             /\ last'.code = 404 <=> (oid # Invalid /\ oid \notin DOMAIN coll)
             /\ last'.code \in {400, 404} => UNCHANGED << store, pc, loc, now >>
    ]_vars

\* a record call for a well-formed id that is no student's was answered 404
\* while students exist
C7_Witness ==
  /\ last.op = "attendance" /\ last.code = 404
  /\ ObjectId(last.arg.id) \in DOMAIN admission
  /\ student # << >>

\* C8 (as claimed): every attendance document has a status among present,
\* absent and late.
C8_StatusEnum ==
  \A i \in DOMAIN attendance : attendance[i].status \in AttendanceStatus

\* C9: with the store configured, login answers 200 exactly when some stored
\* user has the email and the password of the request and is active, and
\* then returns the id, name, email and role of such a user; every other
\* login gets the same 401 "Invalid credentials"; login changes nothing.
C9_Login ==
  [][(Responded("login") /\ db) =>
       LET req == last'.arg
           M == { i \in DOMAIN adminuser :
                    /\ adminuser[i].email = req.email
                    /\ adminuser[i].password = req.password
                    /\ adminuser[i].is_active }
       IN  /\ last'.code = 200 <=> M # {}
           /\ last'.code = 200 =>
                \E i \in M :
                  last'.body.user =
                    [id |-> Str(adminuser[i]._id), name |-> adminuser[i].name,
                     email |-> adminuser[i].email,
                     role |-> Get(adminuser[i], "role", "admin")]
           /\ last'.code # 200 =>
                /\ last'.code = 401
                /\ last'.body = HTTPException("Invalid credentials")
           /\ UNCHANGED << db, store, now, pc, loc >>
    ]_vars

\* a login with the email and password of a stored but inactive user was
\* answered 401
C9_Witness ==
  /\ last.op = "login" /\ last.code = 401
  /\ \E i \in DOMAIN adminuser :
       /\ adminuser[i].email = last.arg.email
       /\ adminuser[i].password = last.arg.password
       /\ ~adminuser[i].is_active

\* C10: an existing admission is modified only by an accept that has
\* already inserted its student: never before the insert.
C10_InsertBeforeUpdate ==
  [][\A i \in DOMAIN admission :
       (i \in DOMAIN admission' /\ admission'[i] # admission[i]) =>
         \E w \in Workers :
           /\ pc[w] = "accept_update"
           /\ loc[w].oid = i
           /\ loc[w].inserted_id \in StudentsFrom(i)
    ]_vars

\* an accept ended between its two store calls: its student exists, its
\* admission is still pending and no request is in progress
C10_Witness ==
  /\ last.op = "accept" /\ last.code = 500
  /\ \A w \in Workers : pc[w] = "idle"
  /\ \E s \in DOMAIN student : admission[origin[s]].status = "pending"

====
